---------------------------- MODULE Spec2Model ----------------------------
(***************************************************************************)
(* PhantomFreq: rotation of a BLE advertiser's identity (address, name,    *)
(* advertising payload) over a fixed roster.  Four variants of the same    *)
(* program are modelled:                                                   *)
(*   "fake"   src/bluetoothFake.c   (Heart-Rate UUID record, payload sent) *)
(*   "linux"  src/linux.c           (payload computed, send commented out) *)
(*   "part0"  src/unnamed/part_000  (same as linux.c, dwell 1 s)           *)
(*   "esp32"  src/ESP32.c           (FreeRTOS task, Bluedroid GAP API)     *)
(*                                                                         *)
(* Two specifications:                                                     *)
(*   SpecEnc  the payload encoders as pure functions, applied to names     *)
(*            drawn from a bounded set;                                    *)
(*   Spec     the scheduling loop of each variant driving the radio.       *)
(***************************************************************************)
EXTENDS Integers, Sequences, FiniteSets, TLC

VARIABLES
    variant,      \* which of the four programs runs
    \* ---- encoder harness (SpecEnc)
    encName,      \* the name handed to the encoder (bytes, no NUL inside)
    encPhase,     \* "input" | "encoded" | "reencoded"
    enc1,         \* what the encoder built for encName
    enc2,         \* what the encoder built for the name kept by enc1
    \* ---- scheduling loop (Spec)
    pc,           \* position of main / advertising_loop_task
    idx,          \* idx (Linux variants) / current_idx (ESP32)
    cycle,        \* number of loop iterations begun
    calls,        \* radio calls issued in the current iteration, in order
    logged,       \* identity named by the log line of the current iteration
    adv,          \* radio: advertising enabled
    radioAddr,    \* radio: random address programmed (6 bytes, wire order)
    radioData,    \* radio: advertising data programmed
    fatalSeen,    \* a setAddress/setPayload/setParameters/start call has failed
    exitCode,     \* process exit status, -1 while running
    session,      \* the HCI socket / the Bluetooth stack: "none", "open", ...
    used,         \* per iteration begun: the roster index and the time of its log
    advances,     \* number of times the cursor was advanced
    startsOk,     \* number of enable-advertising commands that succeeded
    stepFailed,   \* a setPayload/setParameters/start call has failed
    cancelAt,     \* position at which SIGINT ended the process, "" if none
    logLine,      \* name and address printed by the log line of the iteration
    encArg,       \* name handed to the encoder in the current iteration
    history,      \* are cycle, used, advances, startsOk and now recorded?
    now,          \* simulated time in seconds
    cbLog,        \* last line logged by gap_cb
    device_names, \* ESP32.c global
    device_macs,  \* ESP32.c global
    adv_params,   \* ESP32.c global
    rawSet,       \* ESP32: raw advertising data of the iteration: "idle",
                  \* "rejected", "pending" (completion not yet reported), "done"
    startSaw      \* ESP32: rawSet when the iteration issued its start, "" before

encVars  == <<encName, encPhase, enc1, enc2>>
loopVars == <<pc, idx, cycle, calls, logged, adv, radioAddr, radioData,
              fatalSeen, exitCode>>
auxVars  == <<session, used, advances, startsOk, stepFailed, cancelAt,
              logLine, encArg, history, now, cbLog, device_names, device_macs,
              adv_params>>
vars     == <<variant, encName, encPhase, enc1, enc2, pc, idx, cycle, calls,
              logged, adv, radioAddr, radioData, fatalSeen, exitCode,
              session, used, advances, startsOk, stepFailed, cancelAt,
              logLine, encArg, history, now, cbLog, device_names, device_macs,
              adv_params, rawSet, startSaw>>
cbVars   == <<rawSet, startSaw>>

----------------------------------------------------------------------------
(* Bounds of the model *)

\* longest name handed to the encoders in SpecEnc
MaxNameLen == 33

\* loop iterations explored in Spec
MaxCycles == 6

----------------------------------------------------------------------------
(* Program constants *)

\* uint8_t data[31] / uint8_t adv_data[31]
AdvDataSize == 31

\* if (name_len > 29) name_len = 29;
LinuxNameMax == 29
Part0NameMax == 29
Esp32NameMax == 29

\* idx = (idx + 1) % 3
RosterLen == 3

\* sleep(2); / sleep(1); / vTaskDelay(pdMS_TO_TICKS(2000));
FakeDwell == 2
LinuxDwell == 1
Part0Dwell == 1
Esp32DelayMs == 2000

Variants == {"fake", "linux", "part0", "esp32"}
NoUuidVariants == {"linux", "part0", "esp32"}

----------------------------------------------------------------------------
(* The encoders *)

\* uint8_t data[31] = {0}; int index = 0;   (spill: the stores that fell
\* outside the array, as <<index, byte>>, in the order they were made)
EmptyBuf == [data |-> [i \in 0..(AdvDataSize - 1) |-> 0],
             index |-> 0,
             name_len |-> 0,
             nwrites |-> 0,
             spill |-> <<>>]

\* data[index++] = b;   (the store is to a uint8_t)
Put(st, b) ==
    IF st.index < AdvDataSize
    THEN [st EXCEPT !.data[st.index] = b % 256, !.index = @ + 1,
                    !.nwrites = @ + 1]
    ELSE [st EXCEPT !.spill = Append(@, <<st.index, b % 256>>),
                    !.index = @ + 1, !.nwrites = @ + 1]

\* memcpy(data + index, name, n); index += n;
RECURSIVE PutBytes(_, _, _, _)
PutBytes(st, src, from, n) ==
    IF n = 0 THEN st
    ELSE PutBytes(Put(st, src[from]), src, from + 1, n - 1)

Memcpy(st, src, n) == PutBytes(st, src, 1, n)

\* size_t strlen(const char *)
Strlen(name) == Len(name)

\* data[index++] = 2; data[index++] = 0x01; data[index++] = 0x06;
PutFlags(st) == Put(Put(Put(st, 2), 1), 6)

\* data[index++] = 3; 0x03; 0x0D; 0x18   (Heart Rate 0x180D, little-endian)
PutHeartRateUuid(st) == Put(Put(Put(Put(st, 3), 3), 13), 24)

\* data[index++] = name_len + 1; data[index++] = 0x09; memcpy; index += name_len
PutName_NoTypeByte(st, name, n) ==
    Memcpy(Put(Put([st EXCEPT !.name_len = n], n), 9), name, n)
PutName(st, name, n) ==
    Memcpy(Put(Put([st EXCEPT !.name_len = n], n + 1), 9), name, n)

\* bluetoothFake.c: if (name_len > (31 - index - 2)) name_len = (31 - index - 2);
FakeNameMax_NoHeader(index) == AdvDataSize - index
FakeNameMax(index) == AdvDataSize - index - 2

Clamp(n, max) == IF n > max THEN max ELSE n

\* bluetoothFake.c set_advertising_data, up to the hci_send_cmd
FakeSetAdvertisingData(name) ==
    LET st == PutHeartRateUuid(PutFlags(EmptyBuf))
    IN  PutName(st, name, Clamp(Strlen(name), FakeNameMax(st.index)))

\* linux.c set_advertising_data (nothing is sent: the send is commented out)
LinuxSetAdvertisingData(name) ==
    LET st == PutFlags(EmptyBuf)
    IN  PutName(st, name, Clamp(Strlen(name), LinuxNameMax))

\* unnamed/part_000 set_advertising_data (nothing is sent either)
Part0SetAdvertisingData(name) ==
    LET st == PutFlags(EmptyBuf)
    IN  PutName(st, name, Clamp(Strlen(name), Part0NameMax))

\* ESP32.c start_advertising(name), up to esp_ble_gap_config_adv_data_raw
Esp32StartAdvertising(name) ==
    LET st == PutFlags(EmptyBuf)
    IN  PutName(st, name, Clamp(Strlen(name), Esp32NameMax))

Encode(v, name) ==
    CASE v = "fake"  -> FakeSetAdvertisingData(name)
      [] v = "linux" -> LinuxSetAdvertisingData(name)
      [] v = "part0" -> Part0SetAdvertisingData(name)
      [] v = "esp32" -> Esp32StartAdvertising(name)

\* A store past the end of data[31] is undefined behaviour.  The builds differ
\* in what lies behind the array: padding (the run goes on with the locals
\* intact), the local `index` (its low byte is overwritten by a name byte
\* before `index += name_len`), or a stack canary (the process is aborted
\* when the function returns).
Outcomes(st) ==
    IF st.spill = <<>>
    THEN {[kind |-> "intact", index |-> st.index]}
    ELSE {[kind |-> "intact", index |-> st.index],
          [kind |-> "abort", index |-> st.index]}
         \cup {[kind |-> "clobbered", index |-> st.spill[i][2] + st.name_len] :
                    i \in 1..Len(st.spill)}

\* Does the variant hand the buffer to the controller?  (linux.c and
\* part_000 have the send commented out.)
SendsPayload(v) == v \in {"fake", "esp32"}

\* What one run of the encoder leaves behind: the buffer, the length in
\* `index`, the name bytes kept, the length handed to the send (-1: none).
Built(v, name, o) ==
    LET st == Encode(v, name)
    IN  [st      |-> st,
         outcome |-> o.kind,
         len     |-> o.index,
         kept    |-> SubSeq(name, 1, st.name_len),
         sentLen |-> IF SendsPayload(v) /\ o.kind # "abort" THEN o.index ELSE -1]

NoEnc == [st |-> [data |-> <<>>, index |-> 0, name_len |-> 0, nwrites |-> 0,
                   spill |-> <<>>],
          outcome |-> "none", len |-> 0, kept |-> <<>>, sentLen |-> -1]

Min(a, b) == IF a < b THEN a ELSE b

\* The bytes of the 31-byte buffer that the emitted length covers.
Payload(b) == [i \in 1..Min(b.len, AdvDataSize) |-> b.st.data[i - 1]]

----------------------------------------------------------------------------
(* Inputs of the encoder harness *)

NameSeeds == {48, 230}

\* A name of n non-NUL bytes, all different from their neighbours.
NameOf(n, seed) == [i \in 1..n |-> 1 + ((seed + i - 1) % 255)]

Names == {NameOf(n, s) : n \in 0..MaxNameLen, s \in NameSeeds}

----------------------------------------------------------------------------
(* The encoder harness: SpecEnc *)

NoLog == [name |-> <<>>, mac |-> <<>>]

LoopIdle ==
    /\ pc = "off" /\ idx = 0 /\ cycle = 0 /\ calls = <<>> /\ logged = -1
    /\ adv = FALSE /\ radioAddr = <<>> /\ radioData = [len |-> 0, bytes |-> <<>>]
    /\ fatalSeen = FALSE /\ exitCode = -1
    /\ session = "none" /\ used = <<>> /\ advances = 0 /\ startsOk = 0
    /\ stepFailed = FALSE /\ cancelAt = "" /\ logLine = NoLog /\ encArg = <<>>
    /\ history = TRUE /\ now = 0 /\ cbLog = ""
    /\ rawSet = "idle" /\ startSaw = ""
    /\ device_names = <<>> /\ device_macs = <<>> /\ adv_params = <<>>

InitEnc ==
    /\ variant \in Variants
    /\ encName \in Names
    /\ encPhase = "input"
    /\ enc1 = NoEnc
    /\ enc2 = NoEnc
    /\ LoopIdle

\* encode(identity)
EncodeName ==
    /\ encPhase = "input"
    /\ \E o \in Outcomes(Encode(variant, encName)) :
           enc1' = Built(variant, encName, o)
    /\ encPhase' = "encoded"
    /\ UNCHANGED <<variant, encName, enc2>>
    /\ UNCHANGED <<loopVars, auxVars, cbVars>>

\* encode of the name the first run kept (the process is gone after an abort)
ReEncode ==
    /\ encPhase = "encoded"
    /\ enc1.outcome # "abort"
    /\ \E o \in Outcomes(Encode(variant, enc1.kept)) :
           enc2' = Built(variant, enc1.kept, o)
    /\ encPhase' = "reencoded"
    /\ UNCHANGED <<variant, encName, enc1>>
    /\ UNCHANGED <<loopVars, auxVars, cbVars>>

NextEnc == EncodeName \/ ReEncode

SpecEnc == InitEnc /\ [][NextEnc]_vars

----------------------------------------------------------------------------
(* The rosters *)

\* "HRM_Brac_01", "HRM_Brac_02", "HRM_Brac_03"
FakeNames == << <<72, 82, 77, 95, 66, 114, 97, 99, 95, 48, 49>>,
                <<72, 82, 77, 95, 66, 114, 97, 99, 95, 48, 50>>,
                <<72, 82, 77, 95, 66, 114, 97, 99, 95, 48, 51>> >>

\* "DISP_01", "DISP_02", "DISP_03"
LinuxNames == << <<68, 73, 83, 80, 95, 48, 49>>,
                 <<68, 73, 83, 80, 95, 48, 50>>,
                 <<68, 73, 83, 80, 95, 48, 51>> >>
Part0Names == << <<68, 73, 83, 80, 95, 48, 49>>,
                 <<68, 73, 83, 80, 95, 48, 50>>,
                 <<68, 73, 83, 80, 95, 48, 51>> >>
Esp32DeviceNames == << <<68, 73, 83, 80, 95, 48, 49>>,
                       <<68, 73, 83, 80, 95, 48, 50>>,
                       <<68, 73, 83, 80, 95, 48, 51>> >>

\* "AA:BB:CC:DD:EE:01", ...  as the six bytes the text names, left to right
MacsStr == << <<170, 187, 204, 221, 238, 1>>,
              <<170, 187, 204, 221, 238, 2>>,
              <<170, 187, 204, 221, 238, 3>> >>

\* uint8_t device_macs[][6]
Esp32DeviceMacs == << <<170, 187, 204, 221, 238, 1>>,
                      <<170, 187, 204, 221, 238, 2>>,
                      <<170, 187, 204, 221, 238, 3>> >>

\* esp_ble_adv_params_t adv_params = { ... }
Esp32AdvParams ==
    [adv_int_min       |-> 32,
     adv_int_max       |-> 64,
     adv_type          |-> "ADV_TYPE_IND",
     own_addr_type     |-> "BLE_ADDR_TYPE_RANDOM",
     channel_map       |-> "ADV_CHNL_ALL",
     adv_filter_policy |-> "ADV_FILTER_ALLOW_SCAN_ANY_CON_ANY"]

Reverse(q) == [i \in 1..Len(q) |-> q[Len(q) + 1 - i]]

\* str2ba(macs_str[i], &macs[i]): bdaddr_t holds the address last byte first
Str2ba(str) == Reverse(str)

\* names[i] / device_names[i], i counted from 0 as in the code
NameAt(v, i) ==
    CASE v = "fake"  -> FakeNames[i + 1]
      [] v = "linux" -> LinuxNames[i + 1]
      [] v = "part0" -> Part0Names[i + 1]
      [] v = "esp32" -> device_names[i + 1]

\* The six bytes handed to the set-random-address call for identity i:
\* memcpy(cmd.bdaddr, &mac, 6) of macs[i], or device_macs[current_idx].
AddrArg(v, i) ==
    IF v = "esp32" THEN device_macs[i + 1] ELSE Str2ba(MacsStr[i + 1])

----------------------------------------------------------------------------
(* The radio, as the calls of the programs act on it *)

\* Every name of a roster.
RosterNames ==
    {FakeNames[i] : i \in 1..RosterLen}
        \cup {LinuxNames[i] : i \in 1..RosterLen}
        \cup {Part0Names[i] : i \in 1..RosterLen}
        \cup {Esp32DeviceNames[i] : i \in 1..RosterLen}

\* What a run of the variant's encoder on a roster name can leave behind.
RosterRuns ==
    [v \in Variants |->
        [n \in RosterNames |->
            {[built |-> Built(v, n, o)] : o \in Outcomes(Encode(v, n))}]]

FatalOps == {"setAddress", "setPayload", "setParameters", "start"}

\* One radio call as issued: the operation, what the call returned, whether
\* the radio was advertising when it was issued, whether a fatal-class call
\* had failed before, the roster index in use, and the argument.
Call(op, ok, arg) ==
    [op |-> op, ok |-> ok, adv |-> adv, afterFatal |-> fatalSeen,
     id |-> idx, arg |-> arg]

NoArg == [len |-> 0, bytes |-> <<>>]

\* Bookkeeping of the model (iterations, advances, starts, time): counted
\* while `history` is on, left alone while it is off.
Tick(x) == IF history THEN x + 1 ELSE x

\* Seconds the loop sleeps between two switches.
Dwell(v) ==
    CASE v = "fake"  -> FakeDwell
      [] v = "linux" -> LinuxDwell
      [] v = "part0" -> Part0Dwell
      [] v = "esp32" -> Esp32DelayMs \div 1000

\* The text of the log line: names[idx] and macs_str[idx], or
\* device_names[current_idx] and the six bytes of device_macs[current_idx].
LogLineOf(v, i) ==
    IF v = "esp32"
    THEN [name |-> device_names[i + 1], mac |-> device_macs[i + 1]]
    ELSE [name |-> NameAt(v, i), mac |-> MacsStr[i + 1]]

----------------------------------------------------------------------------
(* main of bluetoothFake.c, linux.c and part_000 *)

LinuxVariants == {"fake", "linux", "part0"}

\* hci_get_route / hci_open_dev; exit(1) when no device can be opened
MainOpen_IgnoreFailure ==
    /\ variant \in LinuxVariants
    /\ pc = "open"
    /\ \E routeOk, openOk \in BOOLEAN :
         session' = IF ~routeOk THEN "route_failed"
                    ELSE IF ~openOk THEN "open_failed" ELSE "open"
    /\ pc' = "log"
    /\ UNCHANGED <<variant, idx, cycle, calls, logged, adv, radioAddr,
                   radioData, fatalSeen, exitCode>>
    /\ UNCHANGED encVars
    /\ UNCHANGED cbVars
    /\ UNCHANGED <<used, advances, startsOk, stepFailed, cancelAt, logLine,
                   encArg, history, now, cbLog, device_names, device_macs,
                   adv_params>>
MainOpen ==
    /\ variant \in LinuxVariants
    /\ pc = "open"
    /\ \E routeOk, openOk \in BOOLEAN :
         \* bluetoothFake.c exits when hci_get_route fails; linux.c and
         \* part_000 pass the negative dev_id on to hci_open_dev, which
         \* refuses it (ENODEV), and exit on sock < 0.
         LET got == IF ~routeOk THEN "route_failed"
                    ELSE IF ~openOk THEN "open_failed" ELSE "open"
         IN  /\ session' = got
             /\ IF got = "open"
                THEN pc' = "log" /\ exitCode' = exitCode
                ELSE pc' = "exited" /\ exitCode' = 1
    /\ UNCHANGED <<variant, idx, cycle, calls, logged, adv, radioAddr,
                   radioData, fatalSeen>>
    /\ UNCHANGED encVars
    /\ UNCHANGED cbVars
    /\ UNCHANGED <<used, advances, startsOk, stepFailed, cancelAt, logLine,
                   encArg, history, now, cbLog, device_names, device_macs,
                   adv_params>>
\* while (1) { printf("... %s ... %s\n", names[idx], macs_str[idx]);
MainLog_NamesNextIdentity ==
    /\ variant \in LinuxVariants
    /\ pc = "log"
    /\ history => cycle < MaxCycles
    /\ cycle' = Tick(cycle)
    /\ logged' = idx
    /\ calls' = <<>>
    /\ pc' = "stop"
    /\ UNCHANGED <<variant, idx, adv, radioAddr, radioData, fatalSeen, exitCode>>
    /\ UNCHANGED encVars
    /\ UNCHANGED cbVars
    /\ used' = (IF history THEN Append(used, [id |-> idx, at |-> now]) ELSE used)
    /\ logLine' = LogLineOf(variant, (idx + 1) % RosterLen)
    /\ encArg' = <<>>
    /\ UNCHANGED <<session, advances, startsOk, stepFailed, cancelAt, history, now, cbLog, device_names, device_macs, adv_params>>
MainLog ==
    /\ variant \in LinuxVariants
    /\ pc = "log"
    /\ history => cycle < MaxCycles
    /\ cycle' = Tick(cycle)
    /\ logged' = idx
    /\ calls' = <<>>
    /\ pc' = "stop"
    /\ UNCHANGED <<variant, idx, adv, radioAddr, radioData, fatalSeen, exitCode>>
    /\ UNCHANGED encVars
    /\ UNCHANGED cbVars
    /\ used' = (IF history THEN Append(used, [id |-> idx, at |-> now]) ELSE used)
    /\ logLine' = LogLineOf(variant, idx)
    /\ encArg' = <<>>
    /\ UNCHANGED <<session, advances, startsOk, stepFailed, cancelAt, history, now, cbLog, device_names, device_macs, adv_params>>

\* stop_advertising(sock);   (the return value is not looked at)
MainStop_Skipped ==
    /\ variant \in LinuxVariants
    /\ pc = "stop"
    /\ pc' = "setmac"
    /\ UNCHANGED <<variant, idx, cycle, calls, logged, adv, radioAddr,
                   radioData, fatalSeen, exitCode>>
    /\ UNCHANGED encVars
    /\ UNCHANGED cbVars
    /\ UNCHANGED auxVars
MainStop_RetriesOnFailure ==
    /\ variant \in LinuxVariants
    /\ pc = "stop"
    /\ \E ok \in BOOLEAN :
         /\ calls' = Append(calls, Call("stop", ok, NoArg))
         /\ adv' = IF ok THEN FALSE ELSE adv
         /\ pc' = IF ok THEN "setmac" ELSE "stop"
    /\ UNCHANGED <<variant, idx, cycle, logged, radioAddr, radioData,
                   fatalSeen, exitCode>>
    /\ UNCHANGED encVars
    /\ UNCHANGED cbVars
    /\ UNCHANGED auxVars
MainStop ==
    /\ variant \in LinuxVariants
    /\ pc = "stop"
    /\ \E ok \in BOOLEAN :
         /\ calls' = Append(calls, Call("stop", ok, NoArg))
         /\ adv' = IF ok THEN FALSE ELSE adv
    /\ pc' = "setmac"
    /\ UNCHANGED <<variant, idx, cycle, logged, radioAddr, radioData,
                   fatalSeen, exitCode>>
    /\ UNCHANGED encVars
    /\ UNCHANGED cbVars
    /\ UNCHANGED auxVars

\* set_random_mac(sock, macs[idx]);   (void: a failed send is only reported)
\* The controller's answer to a new random address while it advertises is
\* not defined: the address is taken or the command is refused.
MainSetRandomMac ==
    /\ variant \in LinuxVariants
    /\ pc = "setmac"
    /\ \E ok \in BOOLEAN :
         /\ calls' = Append(calls, Call("setAddress", ok,
                                        [len |-> 6, bytes |-> AddrArg(variant, idx)]))
         /\ fatalSeen' = (fatalSeen \/ ~ok)
         /\ IF ~ok THEN radioAddr' = radioAddr
            ELSE IF ~adv THEN radioAddr' = AddrArg(variant, idx)
            ELSE radioAddr' \in {radioAddr, AddrArg(variant, idx)}
    /\ pc' = "setdata"
    /\ UNCHANGED <<variant, idx, cycle, logged, adv, radioData, exitCode>>
    /\ UNCHANGED encVars
    /\ UNCHANGED cbVars
    /\ UNCHANGED auxVars

\* if (set_advertising_data(sock, names[idx]) < 0) break;
\* bluetoothFake.c sends the buffer; linux.c and part_000 build it and
\* return 0 without sending anything.
MainSetAdvertisingData ==
    /\ variant \in LinuxVariants
    /\ pc = "setdata"
    /\ encArg' = NameAt(variant, idx)
    /\ \E run \in RosterRuns[variant][NameAt(variant, idx)] :
         LET b == run.built
         IN  IF b.outcome = "abort"
             THEN /\ pc' = "exited" /\ exitCode' = 134
                  /\ UNCHANGED <<calls, radioData, fatalSeen, stepFailed>>
             ELSE IF ~SendsPayload(variant)
             THEN /\ pc' = "startadv"
                  /\ UNCHANGED <<calls, radioData, fatalSeen, stepFailed, exitCode>>
             ELSE \E ok \in BOOLEAN :
                  LET arg == [len |-> b.sentLen, bytes |-> Payload(b)]
                  IN  /\ calls' = Append(calls, Call("setPayload", ok, arg))
                      /\ radioData' = IF ok THEN arg ELSE radioData
                      /\ fatalSeen' = (fatalSeen \/ ~ok)
                      /\ stepFailed' = (stepFailed \/ ~ok)
                      /\ pc' = IF ok THEN "startadv" ELSE "cleanup"
                      /\ UNCHANGED exitCode
    /\ UNCHANGED <<variant, idx, cycle, logged, adv, radioAddr>>
    /\ UNCHANGED encVars
    /\ UNCHANGED cbVars
    /\ UNCHANGED <<session, used, advances, startsOk, cancelAt, logLine,
                   history, now, cbLog, device_names, device_macs, adv_params>>
\* What follows a successful start_advertising in the loop body:
\* bluetoothFake.c sleeps and then advances idx, the other two advance first.
AfterStart(v) == IF v = "fake" THEN "sleep" ELSE "advance"

\* if (start_advertising(sock) < 0) break;
\* start_advertising: set the parameters, return -1 if that send fails,
\* else enable advertising, return -1 if that send fails.
MainStartAdvertising_ResultIgnored ==
    /\ variant \in LinuxVariants
    /\ pc = "startadv"
    /\ \E okParams \in BOOLEAN :
         IF ~okParams
         THEN /\ calls' = Append(calls, Call("setParameters", FALSE, NoArg))
              /\ fatalSeen' = TRUE
              /\ stepFailed' = TRUE
              /\ adv' = adv
              /\ startsOk' = startsOk
              /\ pc' = "cleanup"
         ELSE \E okEnable \in BOOLEAN :
              /\ calls' = calls \o << Call("setParameters", TRUE, NoArg),
                                      Call("start", okEnable, NoArg) >>
              /\ fatalSeen' = (fatalSeen \/ ~okEnable)
              /\ stepFailed' = (stepFailed \/ ~okEnable)
              /\ adv' = IF okEnable THEN TRUE ELSE adv
              /\ startsOk' = IF okEnable THEN Tick(startsOk) ELSE startsOk
              /\ pc' = AfterStart(variant)
    /\ UNCHANGED <<variant, idx, cycle, logged, radioAddr, radioData, exitCode>>
    /\ UNCHANGED encVars
    /\ UNCHANGED cbVars
    /\ UNCHANGED <<session, used, advances, cancelAt, logLine, encArg,
                   history, now, cbLog, device_names, device_macs, adv_params>>
MainStartAdvertising ==
    /\ variant \in LinuxVariants
    /\ pc = "startadv"
    /\ \E okParams \in BOOLEAN :
         IF ~okParams
         THEN /\ calls' = Append(calls, Call("setParameters", FALSE, NoArg))
              /\ fatalSeen' = TRUE
              /\ stepFailed' = TRUE
              /\ adv' = adv
              /\ startsOk' = startsOk
              /\ pc' = "cleanup"
         ELSE \E okEnable \in BOOLEAN :
              /\ calls' = calls \o << Call("setParameters", TRUE, NoArg),
                                      Call("start", okEnable, NoArg) >>
              /\ fatalSeen' = (fatalSeen \/ ~okEnable)
              /\ stepFailed' = (stepFailed \/ ~okEnable)
              /\ adv' = IF okEnable THEN TRUE ELSE adv
              /\ startsOk' = IF okEnable THEN Tick(startsOk) ELSE startsOk
              /\ pc' = IF okEnable THEN AfterStart(variant) ELSE "cleanup"
    /\ UNCHANGED <<variant, idx, cycle, logged, radioAddr, radioData, exitCode>>
    /\ UNCHANGED encVars
    /\ UNCHANGED cbVars
    /\ UNCHANGED <<session, used, advances, cancelAt, logLine, encArg,
                   history, now, cbLog, device_names, device_macs, adv_params>>
\* sleep(2);  /  sleep(1);
MainSleep_LeavesLoop ==
    /\ variant \in LinuxVariants
    /\ pc = "sleep"
    /\ pc' = "cleanup"
    /\ UNCHANGED <<variant, idx, cycle, calls, logged, adv, radioAddr,
                   radioData, fatalSeen, exitCode>>
    /\ UNCHANGED encVars
    /\ UNCHANGED cbVars
    /\ now' = (IF history THEN now + Dwell(variant) ELSE now)
    /\ UNCHANGED <<session, used, advances, startsOk, stepFailed, cancelAt, logLine, encArg,
                   history, cbLog, device_names, device_macs, adv_params>>
MainSleep_ReturnsAtOnce ==
    /\ variant \in LinuxVariants
    /\ pc = "sleep"
    /\ pc' = IF variant = "fake" THEN "advance" ELSE "log"
    /\ UNCHANGED <<variant, idx, cycle, calls, logged, adv, radioAddr,
                   radioData, fatalSeen, exitCode>>
    /\ UNCHANGED encVars
    /\ UNCHANGED cbVars
    /\ UNCHANGED auxVars
MainSleep ==
    /\ variant \in LinuxVariants
    /\ pc = "sleep"
    /\ pc' = IF variant = "fake" THEN "advance" ELSE "log"
    /\ UNCHANGED <<variant, idx, cycle, calls, logged, adv, radioAddr,
                   radioData, fatalSeen, exitCode>>
    /\ UNCHANGED encVars
    /\ UNCHANGED cbVars
    /\ now' = (IF history THEN now + Dwell(variant) ELSE now)
    /\ UNCHANGED <<session, used, advances, startsOk, stepFailed, cancelAt, logLine, encArg,
                   history, cbLog, device_names, device_macs, adv_params>>

\* idx = (idx + 1) % 3;
MainAdvance_NoWrap ==
    /\ variant \in LinuxVariants
    /\ pc = "advance"
    /\ idx' = idx + 1
    /\ pc' = IF variant = "fake" THEN "log" ELSE "sleep"
    /\ UNCHANGED <<variant, cycle, calls, logged, adv, radioAddr, radioData,
                   fatalSeen, exitCode>>
    /\ UNCHANGED encVars
    /\ UNCHANGED cbVars
    /\ advances' = Tick(advances)
    /\ UNCHANGED <<session, used, startsOk, stepFailed, cancelAt, logLine, encArg,
                   history, now, cbLog, device_names, device_macs, adv_params>>
MainAdvance ==
    /\ variant \in LinuxVariants
    /\ pc = "advance"
    /\ idx' = (idx + 1) % RosterLen
    /\ pc' = IF variant = "fake" THEN "log" ELSE "sleep"
    /\ UNCHANGED <<variant, cycle, calls, logged, adv, radioAddr, radioData,
                   fatalSeen, exitCode>>
    /\ UNCHANGED encVars
    /\ UNCHANGED cbVars
    /\ advances' = Tick(advances)
    /\ UNCHANGED <<session, used, startsOk, stepFailed, cancelAt, logLine, encArg,
                   history, now, cbLog, device_names, device_macs, adv_params>>

\* after the loop: stop_advertising(sock);
MainCleanupStop ==
    /\ variant \in LinuxVariants
    /\ pc = "cleanup"
    /\ \E ok \in BOOLEAN :
         /\ calls' = Append(calls, Call("cleanupStop", ok, NoArg))
         /\ adv' = IF ok THEN FALSE ELSE adv
    /\ pc' = "close"
    /\ UNCHANGED <<variant, idx, cycle, logged, radioAddr, radioData,
                   fatalSeen, exitCode>>
    /\ UNCHANGED encVars
    /\ UNCHANGED cbVars
    /\ UNCHANGED auxVars

\* close(sock); return 0;
MainClose ==
    /\ variant \in LinuxVariants
    /\ pc = "close"
    /\ calls' = Append(calls, Call("close", TRUE, NoArg))
    /\ pc' = "done"
    /\ exitCode' = 0
    /\ UNCHANGED <<variant, idx, cycle, logged, adv, radioAddr, radioData,
                   fatalSeen>>
    /\ UNCHANGED encVars
    /\ UNCHANGED cbVars
    /\ session' = "closed"
    /\ UNCHANGED <<used, advances, startsOk, stepFailed, cancelAt, logLine, encArg,
                   history, now, cbLog, device_names, device_macs, adv_params>>

----------------------------------------------------------------------------
(* app_main and advertising_loop_task of ESP32.c *)

\* app_main: controller and Bluedroid are brought up, gap_cb is registered,
\* the loop task is created; no return value is looked at.
Esp32AppMain ==
    /\ variant = "esp32"
    /\ pc = "open"
    /\ \E initOk \in BOOLEAN :
         session' = IF initOk THEN "open" ELSE "init_failed"
    /\ pc' = "log"
    /\ UNCHANGED <<variant, idx, cycle, calls, logged, adv, radioAddr,
                   radioData, fatalSeen, exitCode>>
    /\ UNCHANGED encVars
    /\ UNCHANGED cbVars
    /\ UNCHANGED <<used, advances, startsOk, stepFailed, cancelAt, logLine,
                   encArg, history, now, cbLog, device_names, device_macs,
                   adv_params>>
\* while (1) { ESP_LOGI(TAG, ">> Device: %s, MAC: ...", device_names[current_idx], ...);
Esp32Log ==
    /\ variant = "esp32"
    /\ pc = "log"
    /\ history => cycle < MaxCycles
    /\ cycle' = Tick(cycle)
    /\ logged' = idx
    /\ calls' = <<>>
    /\ pc' = "stop"
    /\ UNCHANGED <<variant, idx, adv, radioAddr, radioData, fatalSeen, exitCode>>
    /\ UNCHANGED encVars
    /\ rawSet' = "idle"
    /\ startSaw' = ""
    /\ used' = (IF history THEN Append(used, [id |-> idx, at |-> now]) ELSE used)
    /\ logLine' = LogLineOf(variant, idx)
    /\ encArg' = <<>>
    /\ UNCHANGED <<session, advances, startsOk, stepFailed, cancelAt, history, now, cbLog, device_names, device_macs, adv_params>>

\* esp_ble_gap_stop_advertising();
Esp32Stop ==
    /\ variant = "esp32"
    /\ pc = "stop"
    /\ \E ok \in BOOLEAN :
         /\ calls' = Append(calls, Call("stop", ok, NoArg))
         /\ adv' = IF ok THEN FALSE ELSE adv
    /\ pc' = "setmac"
    /\ UNCHANGED <<variant, idx, cycle, logged, radioAddr, radioData,
                   fatalSeen, exitCode>>
    /\ UNCHANGED encVars
    /\ UNCHANGED cbVars
    /\ UNCHANGED auxVars

\* esp_ble_gap_set_rand_addr(device_macs[current_idx]);
Esp32SetRandAddr ==
    /\ variant = "esp32"
    /\ pc = "setmac"
    /\ \E ok \in BOOLEAN :
         /\ calls' = Append(calls, Call("setAddress", ok,
                                        [len |-> 6, bytes |-> AddrArg(variant, idx)]))
         /\ fatalSeen' = (fatalSeen \/ ~ok)
         /\ IF ~ok THEN radioAddr' = radioAddr
            ELSE IF ~adv THEN radioAddr' = AddrArg(variant, idx)
            ELSE radioAddr' \in {radioAddr, AddrArg(variant, idx)}
    /\ pc' = "setdata"
    /\ UNCHANGED <<variant, idx, cycle, logged, adv, radioData, exitCode>>
    /\ UNCHANGED encVars
    /\ UNCHANGED cbVars
    /\ UNCHANGED auxVars

\* start_advertising(device_names[current_idx]);
\*   ... esp_ble_gap_config_adv_data_raw(adv_data, i);
Esp32ConfigAdvData ==
    /\ variant = "esp32"
    /\ pc = "setdata"
    /\ encArg' = NameAt(variant, idx)
    /\ \E run \in RosterRuns[variant][NameAt(variant, idx)] :
         LET b == run.built
         IN  IF b.outcome = "abort"
             THEN /\ pc' = "exited" /\ exitCode' = 134
                  /\ UNCHANGED <<calls, radioData, fatalSeen, stepFailed, rawSet>>
             ELSE \E ok \in BOOLEAN :
                  LET arg == [len |-> b.sentLen, bytes |-> Payload(b)]
                  IN  /\ calls' = Append(calls, Call("setPayload", ok, arg))
                      /\ radioData' = IF ok THEN arg ELSE radioData
                      /\ fatalSeen' = (fatalSeen \/ ~ok)
                      /\ stepFailed' = (stepFailed \/ ~ok)
                      \* the call returns at once; the completion is
                      \* reported later, to gap_cb
                      /\ rawSet' = IF ok THEN "pending" ELSE "rejected"
                      /\ pc' = "startadv"
                      /\ UNCHANGED exitCode
    /\ UNCHANGED <<variant, idx, cycle, logged, adv, radioAddr>>
    /\ UNCHANGED encVars
    /\ UNCHANGED startSaw
    /\ UNCHANGED <<session, used, advances, startsOk, cancelAt, logLine,
                   history, now, cbLog, device_names, device_macs, adv_params>>
\* esp_ble_gap_start_advertising(&adv_params);   (parameters and enable in
\* one call of the GAP API)
Esp32StartAdv ==
    /\ variant = "esp32"
    /\ pc = "startadv"
    /\ \E ok \in BOOLEAN :
         /\ calls' = Append(calls, Call("start", ok, adv_params))
         /\ fatalSeen' = (fatalSeen \/ ~ok)
         /\ stepFailed' = (stepFailed \/ ~ok)
         /\ adv' = IF ok THEN TRUE ELSE adv
         /\ startsOk' = IF ok THEN Tick(startsOk) ELSE startsOk
    /\ pc' = "advance"
    /\ UNCHANGED <<variant, idx, cycle, logged, radioAddr, radioData, exitCode>>
    /\ UNCHANGED encVars
    /\ startSaw' = rawSet
    /\ UNCHANGED rawSet
    /\ UNCHANGED <<session, used, advances, cancelAt, logLine, encArg,
                   history, now, cbLog, device_names, device_macs, adv_params>>
\* current_idx = (current_idx + 1) % 3;
Esp32Advance ==
    /\ variant = "esp32"
    /\ pc = "advance"
    /\ idx' = (idx + 1) % RosterLen
    /\ pc' = "sleep"
    /\ UNCHANGED <<variant, cycle, calls, logged, adv, radioAddr, radioData,
                   fatalSeen, exitCode>>
    /\ UNCHANGED encVars
    /\ UNCHANGED cbVars
    /\ advances' = Tick(advances)
    /\ UNCHANGED <<session, used, startsOk, stepFailed, cancelAt, logLine, encArg,
                   history, now, cbLog, device_names, device_macs, adv_params>>

\* vTaskDelay(pdMS_TO_TICKS(2000)); }
Esp32Delay ==
    /\ variant = "esp32"
    /\ pc = "sleep"
    /\ pc' = "log"
    /\ UNCHANGED <<variant, idx, cycle, calls, logged, adv, radioAddr,
                   radioData, fatalSeen, exitCode>>
    /\ UNCHANGED encVars
    /\ UNCHANGED cbVars
    /\ now' = (IF history THEN now + Dwell(variant) ELSE now)
    /\ UNCHANGED <<session, used, advances, startsOk, stepFailed, cancelAt, logLine, encArg,
                   history, cbLog, device_names, device_macs, adv_params>>

----------------------------------------------------------------------------
(* gap_cb of ESP32.c *)

\* The events the Bluedroid stack hands to the registered callback.
GapEvents ==
    {[event |-> "ESP_GAP_BLE_ADV_DATA_RAW_SET_COMPLETE_EVT", status |-> "SUCCESS"],
     [event |-> "ESP_GAP_BLE_ADV_START_COMPLETE_EVT", status |-> "SUCCESS"],
     [event |-> "ESP_GAP_BLE_ADV_START_COMPLETE_EVT", status |-> "FAIL"],
     [event |-> "ESP_GAP_BLE_ADV_STOP_COMPLETE_EVT", status |-> "SUCCESS"]}

\* What gap_cb logs for an event (nothing for the events it does not name).
GapCbLine(ev, last) ==
    IF ev.event = "ESP_GAP_BLE_ADV_DATA_RAW_SET_COMPLETE_EVT"
    THEN "Advertising data set"
    ELSE IF ev.event = "ESP_GAP_BLE_ADV_START_COMPLETE_EVT"
    THEN IF ev.status # "SUCCESS" THEN "Failed to start advertising"
                                  ELSE "Advertising started"
    ELSE last

\* gap_cb(event, param), run by the Bluetooth task at any time after
\* esp_ble_gap_register_callback, whatever the loop task is doing.
GapCb_ResetsCursor ==
    /\ variant = "esp32"
    /\ pc # "open"
    /\ \E ev \in GapEvents :
         /\ cbLog' = GapCbLine(ev, cbLog)
         /\ rawSet' = IF /\ ev.event = "ESP_GAP_BLE_ADV_DATA_RAW_SET_COMPLETE_EVT"
                          /\ rawSet = "pending"
                       THEN "done" ELSE rawSet
         /\ idx' = IF ev.event = "ESP_GAP_BLE_ADV_START_COMPLETE_EVT"
                       /\ ev.status # "SUCCESS"
                    THEN 0 ELSE idx
    /\ UNCHANGED <<variant, pc, cycle, calls, logged, adv, radioAddr,
                   radioData, fatalSeen, exitCode>>
    /\ UNCHANGED encVars
    /\ UNCHANGED startSaw
    /\ UNCHANGED <<session, used, advances, startsOk, stepFailed, cancelAt,
                   logLine, encArg, history, now, device_names, device_macs,
                   adv_params>>
GapCb ==
    /\ variant = "esp32"
    /\ pc # "open"
    /\ \E ev \in GapEvents :
         /\ cbLog' = GapCbLine(ev, cbLog)
         /\ rawSet' = IF /\ ev.event = "ESP_GAP_BLE_ADV_DATA_RAW_SET_COMPLETE_EVT"
                          /\ rawSet = "pending"
                       THEN "done" ELSE rawSet
    /\ UNCHANGED <<variant, pc, idx, cycle, calls, logged, adv, radioAddr,
                   radioData, fatalSeen, exitCode>>
    /\ UNCHANGED encVars
    /\ UNCHANGED startSaw
    /\ UNCHANGED <<session, used, advances, startsOk, stepFailed, cancelAt,
                   logLine, encArg, history, now, device_names, device_macs,
                   adv_params>>

----------------------------------------------------------------------------
(* SIGINT (Ctrl+C) in the HCI-socket programs *)

\* None of the three programs installs a signal handler: SIGINT ends the
\* process where it stands, and nothing after the interrupted statement runs.
Sigint ==
    /\ variant \in LinuxVariants
    /\ pc \notin {"exited", "done", "killed"}
    /\ pc' = "killed"
    /\ cancelAt' = pc
    /\ exitCode' = 130
    /\ UNCHANGED <<variant, idx, cycle, calls, logged, adv, radioAddr,
                   radioData, fatalSeen>>
    /\ UNCHANGED encVars
    /\ UNCHANGED cbVars
    /\ UNCHANGED <<session, used, advances, startsOk, stepFailed, logLine,
                   encArg, history, now, cbLog, device_names, device_macs,
                   adv_params>>

----------------------------------------------------------------------------
(* The scheduling loops: Spec *)

EncIdle ==
    /\ encName = <<>> /\ encPhase = "off" /\ enc1 = NoEnc /\ enc2 = NoEnc

\* The process is started; the radio is in whatever state it was left in.
Init ==
    /\ variant \in Variants
    /\ pc = "open"
    /\ idx = 0
    /\ cycle = 0
    /\ calls = <<>>
    /\ logged = -1
    /\ adv \in BOOLEAN
    /\ radioAddr = <<>>
    /\ radioData = NoArg
    /\ fatalSeen = FALSE
    /\ exitCode = -1
    /\ session = "none" /\ used = <<>> /\ advances = 0 /\ startsOk = 0
    /\ stepFailed = FALSE /\ cancelAt = "" /\ logLine = NoLog /\ encArg = <<>>
    /\ history = TRUE /\ now = 0 /\ cbLog = ""
    /\ rawSet = "idle" /\ startSaw = ""
    /\ device_names = (IF variant = "esp32" THEN Esp32DeviceNames ELSE <<>>)
    /\ device_macs = (IF variant = "esp32" THEN Esp32DeviceMacs ELSE <<>>)
    /\ adv_params = (IF variant = "esp32" THEN Esp32AdvParams ELSE <<>>)
    /\ EncIdle

Next ==
    \/ MainOpen
    \/ MainLog
    \/ MainStop
    \/ MainSetRandomMac
    \/ MainSetAdvertisingData
    \/ MainStartAdvertising
    \/ MainSleep
    \/ MainAdvance
    \/ MainCleanupStop
    \/ MainClose
    \/ Esp32AppMain
    \/ Esp32Log
    \/ Esp32Stop
    \/ Esp32SetRandAddr
    \/ Esp32ConfigAdvData
    \/ Esp32StartAdv
    \/ Esp32Advance
    \/ Esp32Delay
    \/ GapCb
    \/ Sigint

Spec == Init /\ [][Next]_vars

\* The steps of the program itself (not the signal, not the callback).
Program ==
    \/ MainOpen
    \/ MainLog
    \/ MainStop
    \/ MainSetRandomMac
    \/ MainSetAdvertisingData
    \/ MainStartAdvertising
    \/ MainSleep
    \/ MainAdvance
    \/ MainCleanupStop
    \/ MainClose
    \/ Esp32AppMain
    \/ Esp32Log
    \/ Esp32Stop
    \/ Esp32SetRandAddr
    \/ Esp32ConfigAdvData
    \/ Esp32StartAdv
    \/ Esp32Advance
    \/ Esp32Delay

\* The same programs without the bookkeeping of iterations and time, so that
\* the loops run without end; every radio call and every sleep returns.
InitLive ==
    /\ variant \in Variants
    /\ pc = "open"
    /\ idx = 0
    /\ cycle = 0
    /\ calls = <<>>
    /\ logged = -1
    /\ adv \in BOOLEAN
    /\ radioAddr = <<>>
    /\ radioData = NoArg
    /\ fatalSeen = FALSE
    /\ exitCode = -1
    /\ session = "none" /\ used = <<>> /\ advances = 0 /\ startsOk = 0
    /\ stepFailed = FALSE /\ cancelAt = "" /\ logLine = NoLog /\ encArg = <<>>
    /\ history = FALSE /\ now = 0 /\ cbLog = ""
    /\ rawSet = "idle" /\ startSaw = ""
    /\ device_names = (IF variant = "esp32" THEN Esp32DeviceNames ELSE <<>>)
    /\ device_macs = (IF variant = "esp32" THEN Esp32DeviceMacs ELSE <<>>)
    /\ adv_params = (IF variant = "esp32" THEN Esp32AdvParams ELSE <<>>)
    /\ EncIdle

SpecLive == InitLive /\ [][Next]_vars /\ WF_vars(Program)

----------------------------------------------------------------------------
(* Claims about the encoders (checked under SpecEnc) *)

Encoded == encPhase # "input"

FlagsRecord == <<2, 1, 6>>
HeartRateRecord == <<3, 3, 13, 24>>

\* Bytes in front of the name record: Flags, and the UUID record if any.
Preamble(v) == IF v = "fake" THEN FlagsRecord \o HeartRateRecord ELSE FlagsRecord

\* The largest name length for which the preamble, the two header bytes of
\* the name record and the name still fit in 31 bytes.
MaxKeep(v) == AdvDataSize - Len(Preamble(v)) - 2

\* The name bytes found in the buffer behind the name record's header.
NameInBuffer(b, v) ==
    LET from == Len(Preamble(v)) + 2
    IN  [i \in 1..(Min(b.st.index, AdvDataSize) - from) |-> b.st.data[from + i - 1]]

\* C1: for every name, the encoders without a Service-UUID record (linux.c,
\* part_000, ESP32.c) build a payload of at most 31 bytes and store every
\* byte at an index below 31.
CE_C1_NoUuidPayloadBound ==
    (Encoded /\ variant \in NoUuidVariants) =>
        /\ enc1.st.index <= AdvDataSize
        /\ enc1.st.spill = <<>>

\* C2: for every name, bluetoothFake.c builds Flags, then the Heart-Rate UUID
\* record (0x0D, 0x18), then the Complete Local Name record, in at most 31
\* bytes, stores nothing past the buffer, and hands the send a length equal
\* to the number of bytes written.
Thm_C2_FakePayloadBound ==
    (Encoded /\ variant = "fake") =>
        /\ enc1.st.index <= AdvDataSize
        /\ enc1.st.spill = <<>>
        /\ enc1.sentLen = enc1.st.nwrites
        /\ SubSeq(Payload(enc1), 1, 7) = FlagsRecord \o HeartRateRecord
        /\ Payload(enc1)[8] = Len(enc1.kept) + 1
        /\ Payload(enc1)[9] = 9
        /\ SubSeq(Payload(enc1), 10, enc1.len) = enc1.kept

\* a name longer than what fits was encoded by bluetoothFake.c
Wit_C2_FakeTruncated ==
    /\ Encoded /\ variant = "fake"
    /\ Len(encName) > MaxKeep("fake")
    /\ enc1.sentLen = AdvDataSize

\* C3: in every variant the name bytes of the name record are the first k
\* bytes of the name, k the largest length for which the whole payload is at
\* most 31 bytes; a name that fits is not shortened; the encode never fails.
CE_C3_MaximalPrefix ==
    Encoded =>
        LET k == Min(Len(encName), MaxKeep(variant))
        IN  /\ enc1.kept = SubSeq(encName, 1, k)
            /\ NameInBuffer(enc1, variant) = SubSeq(encName, 1, k)
            /\ enc1.outcome = "intact"

\* Length-type-value parse of `bytes`, of which `n` were emitted: the records
\* found, and whether their declared lengths consume exactly n bytes.
RECURSIVE ParseFrom(_, _, _, _)
ParseFrom(bytes, n, pos, recs) ==
    IF pos = n + 1 THEN [ok |-> TRUE, recs |-> recs]
    ELSE IF pos > n \/ pos > Len(bytes) THEN [ok |-> FALSE, recs |-> recs]
    ELSE LET l == bytes[pos]
         IN  IF l = 0 \/ pos + l > n \/ pos + l > Len(bytes)
             THEN [ok |-> FALSE, recs |-> recs]
             ELSE ParseFrom(bytes, n, pos + l + 1,
                            Append(recs, [len   |-> l,
                                          type  |-> bytes[pos + 1],
                                          value |-> SubSeq(bytes, pos + 2, pos + l)]))

Parse(b) ==
    IF b.len < 0 THEN [ok |-> FALSE, recs |-> <<>>]
    ELSE ParseFrom(Payload(b), b.len, 1, <<>>)

IsPrefix(a, b) == Len(a) <= Len(b) /\ a = SubSeq(b, 1, Len(a))

\* C4: for every name and every encoder, the emitted payload parses as
\* length-type-value records whose lengths consume exactly the emitted byte
\* count; the first is Flags [2, 0x01, 0x06]; the last is a Complete Local
\* Name record whose length byte is the kept name length + 1 and whose value
\* is a prefix of the name.
CE_C4_WellFormed ==
    Encoded =>
        LET p == Parse(enc1)
        IN  /\ enc1.outcome # "abort"
            /\ p.ok
            /\ Len(p.recs) >= 2
            /\ p.recs[1] = [len |-> 2, type |-> 1, value |-> <<6>>]
            /\ p.recs[Len(p.recs)].type = 9
            /\ p.recs[Len(p.recs)].len = Len(enc1.kept) + 1
            /\ p.recs[Len(p.recs)].value = enc1.kept
            /\ IsPrefix(p.recs[Len(p.recs)].value, encName)

CE_C6_EmptyNameFiveBytes ==
    (Encoded /\ encName = <<>>) =>
        /\ Payload(enc1) = <<2, 1, 6, 1, 9>>
        /\ enc1.len = 5

\* C6 amended: the empty name encodes to the variant's preamble (Flags, and
\* in bluetoothFake.c the Heart-Rate UUID record) followed by the name record
\* [1, 0x09] and nothing else: 5 bytes [2, 0x01, 0x06, 1, 0x09] in linux.c,
\* part_000 and ESP32.c, 9 bytes in bluetoothFake.c.
Thm_C6_EmptyName ==
    (Encoded /\ encName = <<>>) =>
        /\ enc1.outcome = "intact"
        /\ Payload(enc1) = Preamble(variant) \o <<1, 9>>
        /\ enc1.len = Len(Preamble(variant)) + 2
        /\ enc1.st.nwrites = enc1.len
        /\ variant \in NoUuidVariants =>
               (Payload(enc1) = <<2, 1, 6, 1, 9>> /\ enc1.len = 5)
        /\ variant = "fake" =>
               (Payload(enc1) = <<2, 1, 6, 3, 3, 13, 24, 1, 9>> /\ enc1.len = 9)

\* the empty name was encoded by bluetoothFake.c, nine bytes came out
Wit_C6_EmptyNameFake ==
    /\ Encoded /\ encName = <<>> /\ variant = "fake"
    /\ enc1.len = 9

----------------------------------------------------------------------------
(* Claims about the scheduling loop (checked under Spec) *)

CycleOps == {"stop", "setAddress", "setPayload", "setParameters", "start"}

\* Place of an operation in the order stop, setAddress, setPayload,
\* setParameters, start.
Rank(op) ==
    CASE op = "stop"          -> 1
      [] op = "setAddress"    -> 2
      [] op = "setPayload"    -> 3
      [] op = "setParameters" -> 4
      [] op = "start"         -> 5
      [] OTHER                -> 6

IsCycleCall(c) == c.op \in CycleOps

\* The radio calls of the current iteration, without the cleanup after it.
CycleCalls == SelectSeq(calls, IsCycleCall)

\* C7: in every iteration of the loop the radio calls that are issued come in
\* the order stop, setAddress, setPayload, setParameters, start, each at most
\* once, and setAddress only after a stop of the same iteration.
Thm_C7_SequencerOrder ==
    /\ \A i, j \in 1..Len(CycleCalls) :
           i < j => Rank(CycleCalls[i].op) < Rank(CycleCalls[j].op)
    /\ \A i \in 1..Len(CycleCalls) :
           CycleCalls[i].op = "setAddress" =>
               \E j \in 1..(i - 1) : CycleCalls[j].op = "stop"

\* a later iteration of bluetoothFake.c has issued all five calls
Wit_C7_FullCycle ==
    /\ variant = "fake" /\ cycle >= 2
    /\ Len(CycleCalls) = 5
    /\ CycleCalls[1].op = "stop" /\ CycleCalls[5].op = "start"

\* C8: under any pattern of call results, set-random-address is never issued
\* while the radio is advertising.
CE_C8_AddressOnlyWhileStopped ==
    \A i \in 1..Len(calls) : calls[i].op = "setAddress" => ~calls[i].adv

\* C9: once setAddress, setPayload, setParameters or start has reported a
\* failure, none of these four is issued again, and after the cleanup the
\* radio is not advertising.
CE_C9_FatalAbort ==
    /\ \A i \in 1..Len(calls) : calls[i].op \in FatalOps => ~calls[i].afterFatal
    /\ (pc = "done" /\ fatalSeen) => ~adv

\* The set-payload argument that carries the encoding of identity i's name.
EncodingOf(v, i) ==
    LET st == Encode(v, NameAt(v, i))
    IN  [len |-> st.index,
         bytes |-> [k \in 1..Min(st.index, AdvDataSize) |-> st.data[k - 1]]]

\* C10: in every iteration that reaches start, a set-payload call carrying
\* the encoding of the current identity's name was issued after setAddress
\* and before setParameters.
CE_C10_PayloadTransmitted ==
    \A i \in 1..Len(calls) :
        calls[i].op = "start" =>
            \E j \in 1..(i - 1) :
                /\ calls[j].op = "setPayload"
                /\ calls[j].arg = EncodingOf(variant, calls[i].id)
                /\ \E a \in 1..(j - 1) : calls[a].op = "setAddress"
                /\ \A p \in 1..Len(calls) :
                       calls[p].op = "setParameters" => j < p

\* The last radio call of the current iteration is a start that succeeded.
JustStarted ==
    /\ Len(calls) > 0
    /\ calls[Len(calls)].op = "start"
    /\ calls[Len(calls)].ok

\* C11: whenever the radio is advertising after a start issued by the loop,
\* the address and the payload programmed in the radio are both those of the
\* identity of the current iteration, whatever calls have failed.
CE_C11_ConsistentIdentity ==
    (adv /\ JustStarted) =>
        /\ radioAddr = AddrArg(variant, logged)
        /\ radioData = EncodingOf(variant, logged)

\* The operation is issued to the radio in the current iteration (the ESP32
\* start call carries the advertising parameters).
Issued(op) ==
    \/ \E i \in 1..Len(calls) : calls[i].op = op /\ calls[i].id = logged
    \/ /\ op = "setParameters"
       /\ variant = "esp32"
       /\ \E i \in 1..Len(calls) :
              calls[i].op = "start" /\ calls[i].arg = adv_params

\* C12: an iteration whose stop call failed is not aborted: it goes on to
\* issue setAddress, setPayload, setParameters and start for the same
\* identity.
CE_C12_StopFailureProceeds ==
    (/\ Len(calls) > 0
     /\ calls[1].op = "stop" /\ ~calls[1].ok
     /\ calls[Len(calls)].op = "start") =>
        /\ Issued("setAddress")
        /\ Issued("setPayload")
        /\ Issued("setParameters")
        /\ Issued("start")
        /\ \A i \in 1..Len(calls) : calls[i].id = logged

\* C13: the cursor is always in 0..N-1 with N = 3, it is the number of
\* advances modulo N, and the identities of the successive iterations are
\* the roster in order, again and again.
Thm_C13_CursorCircular ==
    /\ idx \in 0..(RosterLen - 1)
    /\ idx = advances % RosterLen
    /\ \A k \in 1..Len(used) : used[k].id = (k - 1) % RosterLen

\* 2N iterations have run without a failed step and the cursor is back at 0
Wit_C13_TwoRounds ==
    /\ Len(used) = 2 * RosterLen
    /\ advances = 2 * RosterLen
    /\ idx = 0
    /\ ~fatalSeen
    /\ [k \in 1..Len(used) |-> used[k].id] = <<0, 1, 2, 0, 1, 2>>

\* The loop has ended: main has returned, or the process was interrupted.
LoopEnded == pc \in {"done", "killed"} /\ cycle > 0

\* C14: whenever the loop ends, by a failed step or by a cancellation signal
\* arriving anywhere in an iteration or in the dwell, a final stop was issued
\* before the close, close is the last radio command, the radio is not
\* advertising, and a cancellation took effect only at the top of an
\* iteration.
CE_C14_FinalStopOnExit ==
    LoopEnded =>
        /\ \E i \in 1..Len(calls) :
               /\ calls[i].op = "cleanupStop"
               /\ \E j \in (i + 1)..Len(calls) : calls[j].op = "close"
        /\ Len(calls) > 0 /\ calls[Len(calls)].op = "close"
        /\ ~adv
        /\ cancelAt \in {"", "log"}

\* C15: when the loop was left because a step failed, the process has issued
\* the final stop and the close and exits with a non-zero status.
CE_C15_AbortExitsNonZero ==
    (pc = "done" /\ stepFailed) =>
        /\ \E i \in 1..Len(calls) : calls[i].op = "cleanupStop"
        /\ \E i \in 1..Len(calls) : calls[i].op = "close"
        /\ exitCode # 0

LeftLoop == pc \in {"cleanup", "close", "done"}

\* A setPayload, setParameters or start call of the current iteration failed.
BreakingFailure ==
    \E i \in 1..Len(calls) :
        calls[i].op \in {"setPayload", "setParameters", "start"} /\ ~calls[i].ok

\* Identity i has just been started.
StartedOk(i) == JustStarted /\ logged = i

\* What ends the premise of C17: a failed setPayload/setParameters/start, a
\* cancellation, or a process that never got its session.
Disturbed == stepFailed \/ pc \in {"killed", "exited"}

\* C17: the loop is left only from an iteration in which setPayload,
\* setParameters or start failed; and as long as none of these fails and no
\* cancellation arrives, every identity of the roster is started again and
\* again without end.
Thm_C17_CyclesForever ==
    /\ [](LeftLoop => BreakingFailure)
    /\ \A i \in 0..(RosterLen - 1) : (<>Disturbed) \/ []<>StartedOk(i)

\* the loop has come round: identity 0 is being switched in while the radio
\* still advertises with the address of identity 2
Wit_C17_CameRound ==
    /\ logged = 0 /\ idx = 0
    /\ adv
    /\ radioAddr = AddrArg(variant, RosterLen - 1)
    /\ ~Disturbed

\* The address a log line names, as the bytes handed to the radio (str2ba
\* in the HCI-socket programs, the array itself in ESP32.c).
LoggedAddr ==
    IF variant = "esp32" THEN logLine.mac ELSE Str2ba(logLine.mac)

\* C18: every radio call of an iteration comes after the log line of that
\* iteration, the log line names the identity (name and address) of the
\* iteration, and that name and address are what the iteration passes to
\* setAddress and to the encoder.
Thm_C18_LogNamesIdentity ==
    /\ \A i \in 1..Len(calls) :
           IsCycleCall(calls[i]) =>
               /\ logLine # NoLog
               /\ logLine = LogLineOf(variant, calls[i].id)
    /\ \A i \in 1..Len(calls) :
           calls[i].op = "setAddress" =>
               calls[i].arg = [len |-> 6, bytes |-> LoggedAddr]
    /\ encArg \in {<<>>, logLine.name}
    /\ \A i \in 1..Len(calls) :
           calls[i].op \in {"setPayload", "setParameters", "start"} =>
               encArg = logLine.name

\* the second iteration of linux.c has logged DISP_02, passed its address to
\* setAddress and its name to the encoder, and started
Wit_C18_SecondIdentityLogged ==
    /\ variant = "linux" /\ cycle = 2
    /\ logLine = [name |-> LinuxNames[2], mac |-> MacsStr[2]]
    /\ encArg = LinuxNames[2]
    /\ \E i \in 1..Len(calls) :
           calls[i].op = "setAddress" /\ calls[i].arg.bytes = Str2ba(MacsStr[2])
    /\ JustStarted

\* The iterations begun before time t (radio calls take no simulated time).
SwitchesBefore(t) == {k \in 1..Len(used) : used[k].at < t}

\* C19: in bluetoothFake.c (roster HRM_Brac_01..03, sleep(2)) the k-th
\* switch begins at 2(k-1) seconds with identity k (modulo 3), so the
\* switches within 6 seconds are exactly the first three, 01, 02, 03 in this
\* order; a switch is its log line, then the stop, then the start, and the
\* 2-second dwell follows the start.
Thm_C19_ThreeSwitchesInSixSeconds ==
    variant = "fake" =>
        /\ \A k \in 1..Len(used) :
               /\ used[k].at = FakeDwell * (k - 1)
               /\ NameAt("fake", used[k].id) = FakeNames[((k - 1) % RosterLen) + 1]
        /\ SwitchesBefore(RosterLen * FakeDwell) \subseteq 1..RosterLen
        /\ now >= RosterLen * FakeDwell =>
               SwitchesBefore(RosterLen * FakeDwell) = 1..RosterLen
        /\ JustStarted =>
               /\ calls[1].op = "stop"
               /\ logLine.name = NameAt("fake", logged)
               /\ logged = used[Len(used)].id
               /\ pc = "sleep" => now = used[Len(used)].at
               /\ pc = "advance" => now = used[Len(used)].at + FakeDwell

\* six seconds have passed without a failed call: three switches lie within
\* them and the fourth (HRM_Brac_01 again) has just started at t = 6
Wit_C19_FourthSwitchAtSix ==
    /\ variant = "fake"
    /\ ~fatalSeen
    /\ Len(used) = 4
    /\ [k \in 1..4 |-> used[k].at] = <<0, 2, 4, 6>>
    /\ startsOk = 4
    /\ JustStarted /\ logLine.name = FakeNames[1]

\* The loop task's state and the radio, as far as gap_cb could touch them.
ControllerState ==
    <<idx, device_names, device_macs, adv_params, logged, pc, calls, adv,
      radioAddr, radioData>>

\* The ESP32 loop has used the roster entries in order, and the calls of the
\* current iteration carry the name, address and parameters of its entry as
\* they were compiled in.
Esp32IdentitiesAsRoster ==
    /\ \A k \in 1..Len(used) : used[k].id = (k - 1) % RosterLen
    /\ \A i \in 1..Len(calls) :
           /\ calls[i].id = logged
           /\ calls[i].op = "setAddress" =>
                  calls[i].arg = [len |-> 6, bytes |-> Esp32DeviceMacs[logged + 1]]
           /\ calls[i].op = "setPayload" =>
                  /\ encArg = Esp32DeviceNames[logged + 1]
                  /\ calls[i].arg = EncodingOf("esp32", logged)
           /\ calls[i].op = "start" => calls[i].arg = Esp32AdvParams

\* C20: a run of gap_cb, at any point of the loop task and for any event,
\* changes neither current_idx nor device_names, device_macs or adv_params
\* and issues no radio command, and the identities the loop uses are those
\* of the roster in order whatever callbacks have run.
Thm_C20_CallbackReadOnly ==
    /\ [][GapCb => UNCHANGED ControllerState]_vars
    /\ [](variant = "esp32" => Esp32IdentitiesAsRoster)

\* in the second iteration, between set_rand_addr and start_advertising, the
\* callback has reported a failed start
Wit_C20_CallbackMidCycle ==
    /\ variant = "esp32"
    /\ cycle = 2 /\ pc = "setdata"
    /\ cbLog = "Failed to start advertising"
    /\ logged = 1 /\ idx = 1

\* C21: no radio operation is retried: within one iteration each of stop,
\* setAddress, setPayload, setParameters and start is issued at most once,
\* and the call that follows a failed one is a call of another operation.
Thm_C21_NoRetry ==
    /\ \A op \in CycleOps :
           Cardinality({i \in 1..Len(calls) : calls[i].op = op}) <= 1
    /\ \A i \in 1..(Len(calls) - 1) :
           ~calls[i].ok => calls[i + 1].op # calls[i].op

\* an iteration of bluetoothFake.c in which stop and setAddress failed has
\* gone on through setPayload and setParameters to start, each issued once
Wit_C21_FailedNotReissued ==
    /\ variant = "fake"
    /\ Len(calls) = 5
    /\ ~calls[1].ok /\ ~calls[2].ok
    /\ [i \in 1..5 |-> calls[i].op] =
           <<"stop", "setAddress", "setPayload", "setParameters", "start">>

\* C22: in ESP32.c the start of an iteration is issued only once the raw
\* advertising data of that iteration have been reported complete to gap_cb.
CE_C22_StartAfterDataSetComplete ==
    variant = "esp32" => startSaw \in {"", "done"}

\* C23 as stated: in the Linux variants the number of cursor advances always
\* equals the number of successful start commands.
CE_C23_AdvancesEqualStarts ==
    variant \in LinuxVariants => advances = startsOk

\* A successful start of the current iteration still awaits its advance.
AdvanceDue == startsOk = advances + 1

\* C23: in the Linux variants the cursor advances only after a start that
\* succeeded, once for each: the advances equal the successful starts at
\* every top of the loop and after a break, and in between they are one
\* behind exactly from the successful start of the iteration to its advance;
\* after a break the cursor still designates the identity whose
\* set_advertising_data or start_advertising failed.
Thm_C23_AdvanceFollowsStart ==
    variant \in LinuxVariants =>
        /\ advances = startsOk \/ AdvanceDue
        /\ AdvanceDue =>
               /\ JustStarted
               /\ pc \in {"sleep", "advance", "killed"}
               /\ idx = logged
        /\ pc = "log" => advances = startsOk
        /\ LeftLoop =>
               /\ advances = startsOk
               /\ idx = logged
               /\ \E i \in 1..Len(calls) :
                      /\ calls[i].op \in {"setPayload", "setParameters", "start"}
                      /\ ~calls[i].ok
                      /\ calls[i].id = idx

\* the third iteration of linux.c broke on a failed start: two advances, two
\* successful starts, and the cursor still on the third identity
Wit_C23_BreakKeepsCursor ==
    /\ variant = "linux"
    /\ pc = "cleanup"
    /\ cycle = 3 /\ idx = 2 /\ logged = 2
    /\ advances = 2 /\ startsOk = 2
    /\ calls[Len(calls)].op = "start" /\ ~calls[Len(calls)].ok

=============================================================================
